---- MODULE Spec2Model ----
(***************************************************************************)
(* A model of simple_rdbms.py: Column, Index, Table, Database and the      *)
(* statement handlers of SQLParser.  Python dictionaries are modelled in   *)
(* their insertion order wherever the code reads that order (rows, tables, *)
(* SET assignments); exceptions are modelled as an error kind returned     *)
(* next to the object as the code left it when the exception was raised.   *)
(***************************************************************************)
EXTENDS Integers, Sequences, FiniteSets, TLC

(***************************************************************************)
(* Bounds of the model.                                                    *)
(***************************************************************************)
\* inserts are explored while the table's next_id is at most MaxId
MaxId == 2

(***************************************************************************)
(* Python values: None, int, float, bool and str, as tagged records.       *)
(***************************************************************************)
None == [t |-> "none", n |-> 0, s |-> ""]
IntV(i) == [t |-> "int", n |-> i, s |-> ""]
FloatV(i) == [t |-> "float", n |-> i, s |-> ""]
BoolV(b) == [t |-> "bool", n |-> IF b THEN 1 ELSE 0, s |-> ""]
StrV(x) == [t |-> "str", n |-> 0, s |-> x]

IsNum(a) == a.t \in {"int", "float", "bool"}

\* Python ==: numbers compare by value across int, float and bool, strings
\* with strings, None only with None; anything else is unequal.
PyEq(a, b) ==
    IF IsNum(a) /\ IsNum(b) THEN a.n = b.n
    ELSE a.t = b.t /\ a.s = b.s

\* the numerals the model's statements use, and what int() / float() make of them
Numerals == {"0", "1", "2", "3"}
NumeralValue(x) ==
    CASE x = "0" -> 0 [] x = "1" -> 1 [] x = "2" -> 2 [] x = "3" -> 3

\* lexicographic rank of the strings the model's statements use (str < str)
StrRank(x) ==
    CASE x = "" -> 0 [] x = "0" -> 1 [] x = "1" -> 2 [] x = "2" -> 3
      [] x = "3" -> 4 [] x = "a" -> 5 [] x = "b" -> 6 [] x = "x" -> 7
      [] OTHER -> 8

\* Python ordering a < b; "TypeError" when the operands are not comparable
PyLess(a, b) ==
    IF IsNum(a) /\ IsNum(b) THEN (IF a.n < b.n THEN "T" ELSE "F")
    ELSE IF a.t = "str" /\ b.t = "str"
         THEN (IF StrRank(a.s) < StrRank(b.s) THEN "T" ELSE "F")
    ELSE "TypeError"

(***************************************************************************)
(* DataType and Column.                                                    *)
(***************************************************************************)
DataType == {"INTEGER", "TEXT", "FLOAT", "BOOLEAN"}

\* a column whose primary key does not imply NOT NULL
Column_as_declared(name, data_type, primary_key, unique, not_null) ==
    [name |-> name, data_type |-> data_type, primary_key |-> primary_key,
     unique |-> unique, not_null |-> not_null]

Column(name, data_type, primary_key, unique, not_null) ==
    [name |-> name, data_type |-> data_type, primary_key |-> primary_key,
     unique |-> unique, not_null |-> (not_null \/ primary_key)]

Ok(v) == [err |-> "", v |-> v]

\* str(value) of a value that is not None
str(value) ==
    CASE value.t = "str" -> value.s
      [] value.t = "int" -> CHOOSE x \in Numerals : NumeralValue(x) = value.n
      [] value.t = "float" ->
             (CHOOSE x \in Numerals : NumeralValue(x) = value.n) \o ".0"
      [] value.t = "bool" -> IF value.n = 1 THEN "True" ELSE "False"
Raise(kind) == [err |-> kind, v |-> None]

\* str.lower(), for the literals the model's statements use
lower(x) ==
    CASE x = "TRUE" -> "true" [] x = "True" -> "true" [] x = "False" -> "false"
      [] OTHER -> x

\* Column.validate: the value is None or what the caller passed (the parser
\* passes the literal as a str)
validate(col, value) ==
    IF value = None
    THEN (IF col.not_null THEN Raise("NullConstraintViolation") ELSE Ok(None))
    ELSE CASE col.data_type = "INTEGER" ->
                 (IF value.t = "str"
                  THEN (IF value.s \in Numerals
                        THEN Ok(IntV(NumeralValue(value.s)))
                        ELSE Raise("TypeConversionError"))
                  ELSE Ok(IntV(value.n)))
           [] col.data_type = "TEXT" -> Ok(StrV(str(value)))
           [] col.data_type = "FLOAT" ->
                 (IF value.t = "str"
                  THEN (IF value.s \in Numerals
                        THEN Ok(FloatV(NumeralValue(value.s)))
                        ELSE Raise("TypeConversionError"))
                  ELSE Ok(FloatV(value.n)))
           [] col.data_type = "BOOLEAN" ->
                 (IF value.t = "bool" THEN Ok(value)
                  ELSE Ok(BoolV(lower(str(value)) \in {"true", "1", "yes"})))

(***************************************************************************)
(* Index: value -> set of row ids; a bucket exists only while non-empty.   *)
(***************************************************************************)
EmptyIndex == [v \in {} |-> {}]

add(index, value, row_id) ==
    IF value \in DOMAIN index
    THEN [index EXCEPT ![value] = @ \cup {row_id}]
    ELSE [v \in DOMAIN index \cup {value} |->
             IF v = value THEN {row_id} ELSE index[v]]

remove(index, value, row_id) ==
    IF value \in DOMAIN index
    THEN (IF index[value] \ {row_id} = {}
          THEN [v \in DOMAIN index \ {value} |-> index[v]]
          ELSE [index EXCEPT ![value] = @ \ {row_id}])
    ELSE index

find(index, value) ==
    IF value \in DOMAIN index THEN index[value] ELSE {}

(***************************************************************************)
(* Table.  rows is the row dictionary in insertion order, each entry a     *)
(* row id and the row's data (column name -> value); indexes maps each     *)
(* indexed column to its Index.                                            *)
(***************************************************************************)
ColumnNames(tbl) == {tbl.columns[k].name : k \in 1..Len(tbl.columns)}
column_order(tbl) == tbl.column_order

\* row.get(col_name)
Get(data, col_name) ==
    IF col_name \in DOMAIN data THEN data[col_name] ELSE None

\* the loop of create_index over the existing rows, from position k
RECURSIVE BuildIndex(_, _, _, _)
BuildIndex(index, rows, column_name, k) ==
    IF k > Len(rows) THEN index
    ELSE LET value == Get(rows[k].data, column_name)
         IN BuildIndex(IF value # None THEN add(index, value, rows[k].id)
                       ELSE index,
                       rows, column_name, k + 1)

\* a create_index that builds the index again when there is one already
create_index_rebuilt(tbl, column_name) ==
    IF column_name \notin ColumnNames(tbl)
    THEN [err |-> "UnknownColumn", tbl |-> tbl]
    ELSE [err |-> "",
          tbl |-> [tbl EXCEPT !.indexes =
                      [c \in DOMAIN tbl.indexes \cup {column_name} |->
                          IF c = column_name
                          THEN BuildIndex(EmptyIndex, tbl.rows, column_name, 1)
                          ELSE tbl.indexes[c]]]]

create_index(tbl, column_name) ==
    IF column_name \notin ColumnNames(tbl)
    THEN [err |-> "UnknownColumn", tbl |-> tbl]
    ELSE IF column_name \in DOMAIN tbl.indexes
    THEN [err |-> "", tbl |-> tbl]
    ELSE [err |-> "",
          tbl |-> [tbl EXCEPT !.indexes =
                      [c \in DOMAIN tbl.indexes \cup {column_name} |->
                          IF c = column_name
                          THEN BuildIndex(EmptyIndex, tbl.rows, column_name, 1)
                          ELSE tbl.indexes[c]]]]

NoIndexes == [c \in {} |-> EmptyIndex]

\* the dictionary {col.name: col for col in columns}, in insertion order: a
\* name given again keeps its first position and takes the later Column
RECURSIVE columns_dict(_, _, _)
columns_dict(columns, k, dict) ==
    IF k > Len(columns) THEN dict
    ELSE LET col == columns[k]
             at == {j \in 1..Len(dict) : dict[j].name = col.name}
         IN columns_dict(columns, k + 1,
                IF at = {} THEN Append(dict, col)
                ELSE [j \in 1..Len(dict) |-> IF j \in at THEN col ELSE dict[j]])

\* a constructor that accepts any number of primary keys
Table_any_keys(name, columns) ==
    [err |-> "",
     tbl |-> [name |-> name, columns |-> columns_dict(columns, 1, <<>>),
              column_order |-> [k \in 1..Len(columns) |-> columns[k].name],
              rows |-> <<>>, next_id |-> 1,
              indexes |-> [c \in {columns[k].name : k \in {j \in 1..Len(columns) :
                               columns[j].primary_key \/ columns[j].unique}}
                           |-> EmptyIndex]]]

\* Table.__init__: the primary key and every unique column get an index; a
\* second primary key raises
Table(name, columns) ==
    LET pks == {k \in 1..Len(columns) : columns[k].primary_key}
        auto == {columns[k].name : k \in {j \in 1..Len(columns) :
                     columns[j].primary_key \/ columns[j].unique}}
        tbl == [name |-> name, columns |-> columns_dict(columns, 1, <<>>),
                column_order |-> [k \in 1..Len(columns) |-> columns[k].name],
                rows |-> <<>>, next_id |-> 1,
                indexes |-> [c \in auto |-> EmptyIndex]]
    IN IF Cardinality(pks) > 1
       THEN [err |-> "MultiplePrimaryKey", tbl |-> tbl]
       ELSE [err |-> "", tbl |-> tbl]

\* every index gets / loses the row's non-null value of its column
IndexRow(indexes, data, row_id) ==
    [c \in DOMAIN indexes |->
        IF Get(data, c) # None THEN add(indexes[c], Get(data, c), row_id)
        ELSE indexes[c]]

UnindexRow(indexes, data, row_id) ==
    [c \in DOMAIN indexes |->
        IF Get(data, c) # None THEN remove(indexes[c], Get(data, c), row_id)
        ELSE indexes[c]]

\* the validation loop of insert over the declared columns, from column k
RECURSIVE insert_validate(_, _, _, _)
insert_validate(tbl, values, k, row_data) ==
    IF k > Len(tbl.columns) THEN [err |-> "", data |-> row_data]
    ELSE LET col == tbl.columns[k]
             value == Get(values, col.name)
             r == validate(col, value)
         IN IF r.err # "" THEN [err |-> r.err, data |-> row_data]
            ELSE IF /\ r.v # None
                    /\ (col.unique \/ col.primary_key)
                    /\ col.name \in DOMAIN tbl.indexes
                    /\ find(tbl.indexes[col.name], r.v) # {}
            THEN [err |-> "DuplicateValue", data |-> row_data]
            ELSE insert_validate(tbl, values, k + 1,
                    [c \in DOMAIN row_data \cup {col.name} |->
                        IF c = col.name THEN r.v ELSE row_data[c]])

NoData == [c \in {} |-> None]

\* a counter that insert does not advance
insert_next_id_kept(next_id) == next_id

\* the counter after insert took its row id from it
insert_next_id(next_id) == next_id + 1

insert(tbl, values) ==
    LET r == insert_validate(tbl, values, 1, NoData)
        row_id == tbl.next_id
    IN IF r.err # "" THEN [err |-> r.err, tbl |-> tbl, row_id |-> 0]
       ELSE [err |-> "",
             tbl |-> [tbl EXCEPT
                        !.next_id = insert_next_id(tbl.next_id),
                        !.rows = Append(tbl.rows, [id |-> row_id, data |-> r.data]),
                        !.indexes = IndexRow(tbl.indexes, r.data, row_id)],
             row_id |-> row_id]

(***************************************************************************)
(* WHERE clauses.  A clause is the text after WHERE, as a sequence of      *)
(* one-character strings and words (a word stands for a run of characters  *)
(* holding no blank, quote or operator character).                         *)
(***************************************************************************)
\* the operators dictionary, in its iteration order
operators == <<"=", "!=", ">", "<", ">=", "<=">>

OpText(op) ==
    CASE op = "=" -> <<"=">>
      [] op = "!=" -> <<"!", "=">>
      [] op = ">" -> <<">">>
      [] op = "<" -> <<"<">>
      [] op = ">=" -> <<">", "=">>
      [] op = "<=" -> <<"<", "=">>

\* the operator's lambda; "TypeError" when Python cannot order the operands
Apply(op, a, b) ==
    CASE op = "=" -> (IF PyEq(a, b) THEN "T" ELSE "F")
      [] op = "!=" -> (IF PyEq(a, b) THEN "F" ELSE "T")
      [] op = ">" -> PyLess(b, a)
      [] op = "<" -> PyLess(a, b)
      [] op = ">=" -> (IF PyLess(a, b) = "TypeError" THEN "TypeError"
                       ELSE IF PyLess(a, b) = "T" THEN "F" ELSE "T")
      [] op = "<=" -> (IF PyLess(b, a) = "TypeError" THEN "TypeError"
                       ELSE IF PyLess(b, a) = "T" THEN "F" ELSE "T")

\* the first position at or after i where pat occurs in text, 0 when none
RECURSIVE FindFrom(_, _, _)
FindFrom(text, pat, i) ==
    IF i + Len(pat) - 1 > Len(text) THEN 0
    ELSE IF SubSeq(text, i, i + Len(pat) - 1) = pat THEN i
    ELSE FindFrom(text, pat, i + 1)

\* pat in text
Contains(text, pat) == FindFrom(text, pat, 1) # 0

\* text.split(pat)
RECURSIVE Split(_, _)
Split(text, pat) ==
    LET i == FindFrom(text, pat, 1)
    IN IF i = 0 THEN <<text>>
       ELSE <<SubSeq(text, 1, i - 1)>>
            \o Split(SubSeq(text, i + Len(pat), Len(text)), pat)

\* text.strip(chars): leading and trailing members of chars removed
RECURSIVE Strip(_, _)
Strip(text, chars) ==
    IF text = <<>> THEN text
    ELSE IF text[1] \in chars THEN Strip(Tail(text), chars)
    ELSE IF text[Len(text)] \in chars
         THEN Strip(SubSeq(text, 1, Len(text) - 1), chars)
    ELSE text

Blank == {" "}
Quotes == {"'", "\""}

\* the characters of a text as one string
RECURSIVE AsString(_)
AsString(text) == IF text = <<>> THEN "" ELSE text[1] \o AsString(Tail(text))

\* the literal of a clause: int, then float, else the string itself
Coerce(x) == IF x \in Numerals THEN IntV(NumeralValue(x)) ELSE StrV(x)

NoWhere == [col |-> "", op |-> "", value |-> None]

\* the operator the loop returns a filter for: the first one, in dictionary
\* order from position k, that occurs in the clause and splits it in two
RECURSIVE where_operator(_, _)
where_operator(where_clause, k) ==
    IF k > Len(operators) THEN ""
    ELSE IF /\ Contains(where_clause, OpText(operators[k]))
            /\ Len(Split(where_clause, OpText(operators[k]))) = 2
    THEN operators[k]
    ELSE where_operator(where_clause, k + 1)

_parse_where_clause(where_clause) ==
    LET op == where_operator(where_clause, 1)
        parts == Split(where_clause, OpText(op))
    IN IF op = "" THEN [err |-> "UnsupportedOperator", where |-> NoWhere]
       ELSE [err |-> "",
             where |-> [col |-> AsString(Strip(parts[1], Blank)),
                        op |-> op,
                        value |-> Coerce(AsString(Strip(Strip(parts[2], Blank),
                                                    Quotes)))]]

\* where(row) of a compiled filter; no filter matches every row
Matches(where, data) ==
    IF where = NoWhere THEN "T"
    ELSE Apply(where.op, Get(data, where.col), where.value)

(***************************************************************************)
(* Table.select, Table.update, Table.delete.                               *)
(***************************************************************************)
\* the columns argument when the caller passes None
AllColumns == <<"*">>

\* one result row: the requested columns, then the '_row_id' key
result_row(columns, row) ==
    [c \in {columns[j] : j \in 1..Len(columns)} \cup {"_row_id"} |->
        IF c = "_row_id" THEN IntV(row.id) ELSE Get(row.data, c)]

RECURSIVE select_rows(_, _, _, _, _)
select_rows(rows, columns, where, k, results) ==
    IF k > Len(rows) THEN [err |-> "", rows |-> results]
    ELSE LET m == Matches(where, rows[k].data)
         IN IF m = "TypeError" THEN [err |-> "TypeError", rows |-> <<>>]
            ELSE select_rows(rows, columns, where, k + 1,
                    IF m = "T" THEN Append(results, result_row(columns, rows[k]))
                    ELSE results)

select(tbl, columns, where) ==
    select_rows(tbl.rows,
                IF columns = AllColumns THEN column_order(tbl) ELSE columns,
                where, 1, <<>>)

ColumnOf(tbl, col_name) ==
    tbl.columns[CHOOSE k \in 1..Len(tbl.columns) : tbl.columns[k].name = col_name]

\* the assignment loop of update on one row, from assignment j; indexes are
\* the table's indexes after the row's old values were removed
RECURSIVE update_assign(_, _, _, _, _, _)
update_assign(tbl, indexes, row_id, data, values, j) ==
    IF j > Len(values) THEN [err |-> "", data |-> data]
    ELSE LET col_name == values[j].col
         IN IF col_name \notin ColumnNames(tbl)
            THEN [err |-> "UnknownColumn", data |-> data]
            ELSE LET col == ColumnOf(tbl, col_name)
                     r == validate(col, values[j].val)
                     existing == IF col_name \in DOMAIN indexes
                                 THEN find(indexes[col_name], r.v) ELSE {}
                 IN IF r.err # "" THEN [err |-> r.err, data |-> data]
                    ELSE IF /\ r.v # None
                            /\ (col.unique \/ col.primary_key)
                            /\ existing # {}
                            /\ existing # {row_id}
                    THEN [err |-> "DuplicateValue", data |-> data]
                    ELSE update_assign(tbl, indexes, row_id,
                             [data EXCEPT ![col_name] = r.v], values, j + 1)

\* the row loop of update, from position k of the list of rows; a raise
\* leaves the rows and indexes as mutated in place up to it
RECURSIVE update_rows(_, _, _, _, _)
update_rows(tbl, values, where, k, updated_count) ==
    IF k > Len(tbl.rows)
    THEN [err |-> "", tbl |-> tbl, count |-> updated_count]
    ELSE LET row == tbl.rows[k]
             m == Matches(where, row.data)
         IN IF m = "TypeError"
            THEN [err |-> "TypeError", tbl |-> tbl,
                  count |-> 0]
            ELSE IF m = "F"
            THEN update_rows(tbl, values, where, k + 1, updated_count)
            ELSE LET removed == UnindexRow(tbl.indexes, row.data, row.id)
                     a == update_assign(tbl, removed, row.id, row.data, values, 1)
                     written == [tbl EXCEPT !.rows[k].data = a.data,
                                            !.indexes = removed]
                 IN IF a.err # ""
                    THEN [err |-> a.err, tbl |-> written,
                          count |-> 0]
                    ELSE update_rows(
                             [written EXCEPT !.indexes =
                                 IndexRow(removed, a.data, row.id)],
                             values, where, k + 1, updated_count + 1)

\* an update that looks up the SET columns before it scans the rows
update_checked(tbl, values, where) ==
    IF \E j \in 1..Len(values) : values[j].col \notin ColumnNames(tbl)
    THEN [err |-> "UnknownColumn", tbl |-> tbl, count |-> 0]
    ELSE update_rows(tbl, values, where, 1, 0)

update(tbl, values, where) == update_rows(tbl, values, where, 1, 0)

\* a delete that leaves the row in the row store
WithoutRow_kept(rows, row_id) == rows

\* rows without the row of the given id
RECURSIVE WithoutRow(_, _)
WithoutRow(rows, row_id) ==
    IF rows = <<>> THEN <<>>
    ELSE IF rows[1].id = row_id THEN Tail(rows)
    ELSE <<rows[1]>> \o WithoutRow(Tail(rows), row_id)

\* the row loop of delete over the list of rows taken at its start
RECURSIVE delete_rows(_, _, _, _, _)
delete_rows(snapshot, tbl, where, k, deleted_count) ==
    IF k > Len(snapshot)
    THEN [err |-> "", tbl |-> tbl, count |-> deleted_count]
    ELSE LET row == snapshot[k]
             m == Matches(where, row.data)
         IN IF m = "TypeError"
            THEN [err |-> "TypeError", tbl |-> tbl, count |-> 0]
            ELSE IF m = "F"
            THEN delete_rows(snapshot, tbl, where, k + 1, deleted_count)
            ELSE delete_rows(snapshot,
                     [tbl EXCEPT !.indexes = UnindexRow(tbl.indexes, row.data, row.id),
                                 !.rows = WithoutRow(tbl.rows, row.id)],
                     where, k + 1, deleted_count + 1)

delete(tbl, where) == delete_rows(tbl.rows, tbl, where, 1, 0)

(***************************************************************************)
(* Database: the table dictionary of a handle, in insertion order, and the *)
(* snapshot file.                                                          *)
(***************************************************************************)
TableNamesOf(tables) == {tables[k].name : k \in 1..Len(tables)}

TableAt(tables, name) ==
    CHOOSE k \in 1..Len(tables) : tables[k].name = name

NoTable == [name |-> "", columns |-> <<>>, column_order |-> <<>>,
            rows |-> <<>>, next_id |-> 1,
            indexes |-> NoIndexes]

get_table(tables, name) ==
    IF name \notin TableNamesOf(tables)
    THEN [err |-> "UnknownTable", tbl |-> NoTable]
    ELSE [err |-> "", tbl |-> tables[TableAt(tables, name)]]

\* the table dictionary after a method mutated one of its tables in place
Mutated(tables, tbl) ==
    [tables EXCEPT ![TableAt(tables, tbl.name)] = tbl]

\* the snapshot file: absent, or the pickled Database object
NoFile == [exists |-> FALSE, name |-> "", tables |-> <<>>]
DbName == "db"

save(tables) == [exists |-> TRUE, name |-> DbName, tables |-> tables]

load(file) == file.tables

\* a constructor that never reads the file
Database_not_loaded(file) == <<>>

\* Database.__init__: an empty table dictionary, replaced by the loaded one
\* when the file exists
Database(file) == IF file.exists THEN load(file) ELSE <<>>

\* a handler that never saves
then_save_skipped(err, tables, file) == file

\* a handler that saves on its failing paths too
then_save_always(err, tables, file) == save(tables)

\* a handler that keeps in the file the tables its handle does not hold
then_save_merged(err, tables, file) ==
    IF err = ""
    THEN save(tables \o SelectSeq(file.tables,
                                  LAMBDA t : t.name \notin TableNamesOf(tables)))
    ELSE file

\* a handler's db.save() is its last call: it runs only when no call before
\* it raised
then_save(err, tables, file) == IF err = "" THEN save(tables) ELSE file

\* a create_table that replaces the table of an existing name
create_table_replaced(tables, name, columns) ==
    LET t == Table(name, columns)
    IN IF t.err # "" THEN [err |-> t.err, tables |-> tables]
       ELSE IF name \in TableNamesOf(tables)
       THEN [err |-> "",
             tables |-> [k \in 1..Len(tables) |->
                            IF tables[k].name = name THEN t.tbl ELSE tables[k]]]
       ELSE [err |-> "", tables |-> Append(tables, t.tbl)]

\* a create_table that registers the new table before the existing ones
create_table_first(tables, name, columns) ==
    IF name \in TableNamesOf(tables)
    THEN [err |-> "DuplicateTable", tables |-> tables]
    ELSE LET t == Table(name, columns)
         IN IF t.err # "" THEN [err |-> t.err, tables |-> tables]
            ELSE [err |-> "", tables |-> <<t.tbl>> \o tables]

create_table(tables, name, columns) ==
    IF name \in TableNamesOf(tables)
    THEN [err |-> "DuplicateTable", tables |-> tables]
    ELSE LET t == Table(name, columns)
         IN IF t.err # "" THEN [err |-> t.err, tables |-> tables]
            ELSE [err |-> "", tables |-> Append(tables, t.tbl)]

\* a drop_table that accepts the name of an absent table
drop_table_quiet(tables, name) ==
    IF name \notin TableNamesOf(tables)
    THEN [err |-> "", tables |-> tables]
    ELSE [err |-> "",
          tables |-> SubSeq(tables, 1, TableAt(tables, name) - 1)
                     \o SubSeq(tables, TableAt(tables, name) + 1, Len(tables))]

drop_table(tables, name) ==
    IF name \notin TableNamesOf(tables)
    THEN [err |-> "UnknownTable", tables |-> tables]
    ELSE [err |-> "",
          tables |-> SubSeq(tables, 1, TableAt(tables, name) - 1)
                     \o SubSeq(tables, TableAt(tables, name) + 1, Len(tables))]

(***************************************************************************)
(* CREATE TABLE column definitions: a definition is its words; a flag is   *)
(* set when its keywords occur anywhere in the upper-cased definition.     *)
(***************************************************************************)
\* the flag keywords that occur in the upper-cased word, for the words the
\* model's statements use
KeywordsIn(word) ==
    CASE word = "PRIMARY" -> {"PRIMARY"}
      [] word = "KEY" -> {"KEY"}
      [] word = "UNIQUE" -> {"UNIQUE"}
      [] word = "NOT" -> {"NOT"}
      [] word = "NULL" -> {"NULL"}
      [] word = "unique_id" -> {"UNIQUE"}
      [] word = "primary_key" -> {"PRIMARY", "KEY"}
      [] word = "nullable_note" -> {"NULL", "NOT"}
      [] OTHER -> {}

InDef(keyword, parts) ==
    \E k \in 1..Len(parts) : keyword \in KeywordsIn(parts[k])

\* the loop of _parse_create_table over the column definitions, from k
RECURSIVE parse_columns(_, _, _)
parse_columns(col_defs, k, columns) ==
    IF k > Len(col_defs) THEN [err |-> "", columns |-> columns]
    ELSE LET parts == col_defs[k]
         IN IF Len(parts) < 2 THEN [err |-> "SyntaxError", columns |-> <<>>]
            ELSE IF parts[2] \notin DataType
            THEN [err |-> "KeyError", columns |-> <<>>]
            ELSE parse_columns(col_defs, k + 1,
                    Append(columns,
                           Column(parts[1], parts[2],
                                  InDef("PRIMARY", parts) /\ InDef("KEY", parts),
                                  InDef("UNIQUE", parts),
                                  InDef("NOT", parts) /\ InDef("NULL", parts))))

(***************************************************************************)
(* The statement handlers of SQLParser, as functions of the handle's table *)
(* dictionary and the snapshot file: what they leave in both, and what     *)
(* they return or raise.                                                   *)
(***************************************************************************)
_parse_create_table(tables, file, table_name, col_defs) ==
    LET p == parse_columns(col_defs, 1, <<>>)
        c == create_table(tables, table_name, p.columns)
        err == IF p.err # "" THEN p.err ELSE c.err
        after == IF err = "" THEN c.tables ELSE tables
    IN [err |-> err, tables |-> after, file |-> then_save(err, after, file)]

_parse_drop_table(tables, file, table_name) ==
    LET d == drop_table(tables, table_name)
    IN [err |-> d.err, tables |-> d.tables,
        file |-> then_save(d.err, d.tables, file)]

_parse_insert(tables, file, table_name, values) ==
    LET g == get_table(tables, table_name)
        r == insert(g.tbl, values)
        err == IF g.err # "" THEN g.err ELSE r.err
        after == IF g.err = "" THEN Mutated(tables, r.tbl) ELSE tables
    IN [err |-> err, tables |-> after, file |-> then_save(err, after, file),
        row_id |-> IF err = "" THEN r.row_id ELSE 0]

\* dict(zip(columns, values)): the last value given for a column is kept
zip(columns, values) ==
    [c \in {columns[k] : k \in 1..Len(columns)} |->
        values[CHOOSE k \in 1..Len(columns) :
                  /\ columns[k] = c
                  /\ \A j \in (k + 1)..Len(columns) : columns[j] # c]]

\* _parse_insert from the column list and the value list of the statement:
\* the lengths are compared before the table is looked up
_parse_insert_lists(tables, file, table_name, columns, values) ==
    IF Len(columns) # Len(values)
    THEN [err |-> "SyntaxError", tables |-> tables, file |-> file, row_id |-> 0]
    ELSE _parse_insert(tables, file, table_name, zip(columns, values))

\* the WHERE part of a handler: no clause gives no filter
parse_where(where_clause) ==
    IF where_clause = <<>> THEN [err |-> "", where |-> NoWhere]
    ELSE _parse_where_clause(where_clause)

_parse_update(tables, file, table_name, values, where_clause) ==
    LET g == get_table(tables, table_name)
        w == parse_where(where_clause)
        r == update(g.tbl, values, w.where)
        err == IF g.err # "" THEN g.err ELSE IF w.err # "" THEN w.err ELSE r.err
        after == IF g.err = "" /\ w.err = "" THEN Mutated(tables, r.tbl)
                 ELSE tables
    IN [err |-> err, tables |-> after, file |-> then_save(err, after, file),
        count |-> IF err = "" THEN r.count ELSE 0]

_parse_delete(tables, file, table_name, where_clause) ==
    LET g == get_table(tables, table_name)
        w == parse_where(where_clause)
        r == delete(g.tbl, w.where)
        err == IF g.err # "" THEN g.err ELSE IF w.err # "" THEN w.err ELSE r.err
        after == IF g.err = "" /\ w.err = "" THEN Mutated(tables, r.tbl)
                 ELSE tables
    IN [err |-> err, tables |-> after, file |-> then_save(err, after, file),
        count |-> IF err = "" THEN r.count ELSE 0]

_parse_create_index(tables, file, table_name, column_name) ==
    LET g == get_table(tables, table_name)
        r == create_index(g.tbl, column_name)
        err == IF g.err # "" THEN g.err ELSE r.err
        after == IF g.err = "" THEN Mutated(tables, r.tbl) ELSE tables
    IN [err |-> err, tables |-> after, file |-> then_save(err, after, file)]

_parse_select(tables, table_name, columns, where_clause) ==
    LET g == get_table(tables, table_name)
        w == parse_where(where_clause)
        r == select(g.tbl, columns, w.where)
        err == IF g.err # "" THEN g.err ELSE IF w.err # "" THEN w.err ELSE r.err
    IN [err |-> err, rows |-> IF err = "" THEN r.rows ELSE <<>>]

\* Column.__repr__: the name, the type, then the constraints that are set
__repr__(col) ==
    <<col.name, col.data_type>>
    \o (IF col.primary_key THEN <<"PRIMARY KEY">> ELSE <<>>)
    \o (IF col.unique THEN <<"UNIQUE">> ELSE <<>>)
    \o (IF col.not_null THEN <<"NOT NULL">> ELSE <<>>)

_parse_describe(tables, table_name) ==
    LET g == get_table(tables, table_name)
    IN [err |-> g.err,
        rows |-> IF g.err = ""
                 THEN [k \in 1..Len(g.tbl.columns) |-> __repr__(g.tbl.columns[k])]
                 ELSE <<>>]

\* SHOW TABLES: list(db.tables.keys())
show_tables(tables) == [k \in 1..Len(tables) |-> tables[k].name]

(***************************************************************************)
(* SELECT ... FROM left INNER JOIN right ON a.x = b.y.  A requested column *)
(* is a pair <<table, column>>, the table "" when the column is written    *)
(* unqualified.                                                            *)
(***************************************************************************)
\* the (table, column) list of the join
join_columns(columns, left_table, right_table) ==
    IF columns = AllColumns
    THEN [k \in 1..Len(column_order(left_table)) |->
             <<left_table.name, column_order(left_table)[k]>>]
         \o [k \in 1..Len(column_order(right_table)) |->
             <<right_table.name, column_order(right_table)[k]>>]
    ELSE [k \in 1..Len(columns) |->
             IF columns[k][1] = "" THEN <<left_table.name, columns[k][2]>>
             ELSE columns[k]]

\* the join condition on one pair of rows
join_condition(left_val, right_val) == PyEq(left_val, right_val)

\* a result row that takes every column from the left row
join_result_left(columns, left_table_name, left_row, right_row) ==
    [key \in {columns[k][1] \o "." \o columns[k][2] : k \in 1..Len(columns)} |->
        LET k == CHOOSE j \in 1..Len(columns) :
                     columns[j][1] \o "." \o columns[j][2] = key
        IN Get(left_row, columns[k][2])]

\* the result row built for one matching pair
join_result(columns, left_table_name, left_row, right_row) ==
    [key \in {columns[k][1] \o "." \o columns[k][2] : k \in 1..Len(columns)} |->
        LET k == CHOOSE j \in 1..Len(columns) :
                     columns[j][1] \o "." \o columns[j][2] = key
        IN IF columns[k][1] = left_table_name
           THEN Get(left_row, columns[k][2])
           ELSE Get(right_row, columns[k][2])]

\* the nested loops of the join, from the p-th pair of rows (left-major)
RECURSIVE join_rows(_, _, _, _, _, _, _)
join_rows(left_rows, right_rows, on, columns, names, p, results) ==
    IF p > Len(left_rows) * Len(right_rows) THEN results
    ELSE LET left_table_name == names[1]
             right_table_name == names[2]
             left_row == left_rows[((p - 1) \div Len(right_rows)) + 1]
             right_row == right_rows[((p - 1) % Len(right_rows)) + 1]
             left_val == IF on.left_table = left_table_name
                         THEN Get(left_row, on.left_col)
                         ELSE Get(right_row, on.left_col)
             right_val == IF on.right_table = right_table_name
                          THEN Get(right_row, on.right_col)
                          ELSE Get(left_row, on.right_col)
         IN join_rows(left_rows, right_rows, on, columns, names, p + 1,
                      IF join_condition(left_val, right_val)
                      THEN Append(results,
                                  join_result(columns, left_table_name,
                                              left_row, right_row))
                      ELSE results)

_parse_select_with_join(tables, columns, left_table_name, right_table_name, on) ==
    LET l == get_table(tables, left_table_name)
        r == get_table(tables, right_table_name)
        err == IF l.err # "" THEN l.err ELSE r.err
    IN [err |-> err,
        rows |-> IF err # "" THEN <<>>
                 ELSE join_rows(select(l.tbl, AllColumns, NoWhere).rows,
                                select(r.tbl, AllColumns, NoWhere).rows,
                                on, join_columns(columns, l.tbl, r.tbl),
                                <<left_table_name, right_table_name>>, 1, <<>>)]

(***************************************************************************)
(* The statements the model runs.                                          *)
(***************************************************************************)
TableNames == {"t", "u"}

\* CREATE TABLE name (id INTEGER PRIMARY KEY, v INTEGER)
GoodDef == << <<"id", "INTEGER", "PRIMARY", "KEY">>, <<"v", "INTEGER">> >>

\* definitions that are rejected: two primary keys, a column without a type,
\* an unknown type
TwoKeysDef ==
    << <<"id", "INTEGER", "PRIMARY", "KEY">>, <<"v", "INTEGER", "PRIMARY", "KEY">> >>
BadDefs == {TwoKeysDef, << <<"id">> >>, << <<"id", "BLOB">> >>}

\* INSERT INTO name (cols) VALUES (vals): the dictionary zip(cols, vals) of
\* the literals, after the quotes are stripped
InsertValues ==
    UNION {[cols -> {StrV("1"), StrV("2"), StrV("x")}] : cols \in SUBSET {"id", "v"}}

\* the INSERT statements of the main specification: any id, v absent or 1
MainInserts == {f \in InsertValues : "v" \in DOMAIN f => f["v"] = StrV("1")}

\* the INSERT statements that succeed on an empty table
PlainInserts ==
    {f \in InsertValues : "id" \in DOMAIN f /\ \A c \in DOMAIN f : f[c] # StrV("x")}

\* UPDATE name SET col = val: the assignments, in order
Assign(col, x) == <<[col |-> col, val |-> StrV(x)]>>
SetClauses ==
    {Assign("id", "1"), Assign("id", "2"), Assign("id", "x"), Assign("v", "2"),
     Assign("w", "1")}

\* the text `col op literal` of a WHERE clause
Clause(col, op, literal) == <<col, " ">> \o OpText(op) \o <<" ", literal>>

\* the WHERE clauses of UPDATE and DELETE; <<>> is a statement without one,
\* the last one holds no operator
WhereClauses ==
    {<<>>, Clause("id", "=", "1"), Clause("v", ">", "1"), <<"id", " ", "1">>}

Ops == {operators[k] : k \in 1..Len(operators)}

\* the WHERE clauses of SELECT: every operator, on either column
SelectClauses ==
    {<<>>} \cup {Clause(c, op, x) : c \in {"id", "v"}, op \in Ops, x \in {"1", "2"}}

(***************************************************************************)
(* State.  db[h] is the table dictionary of handle h, disk the snapshot    *)
(* file, last the statement that ran last with what it returned or raised, *)
(* result the rows a query returned, issued[name] the largest row id an    *)
(* insert has returned for the table of that name since it was created,    *)
(* created[h] the accepted CREATE TABLE statements of the tables handle h   *)
(* holds, in the order they ran, and created[0] that list as of the last   *)
(* save.                                                                   *)
(***************************************************************************)
VARIABLES db, disk, last, result, issued, created

vars == <<db, disk, last, result, issued, created>>

Handles == {1, 2}

NoValues == [c \in {} |-> None]
NoOn == [left_table |-> "", left_col |-> "", right_table |-> "", right_col |-> ""]

Stmt(op, h, table, err) ==
    [op |-> op, h |-> h, table |-> table, err |-> err, row_id |-> 0,
     count |-> 0, values |-> NoValues, where |-> <<>>, columns |-> <<>>,
     right |-> "", on |-> NoOn, col_defs |-> <<>>, set |-> <<>>]

\* the handle was constructed with no snapshot file present
Init ==
    /\ db = [h \in Handles |-> <<>>]
    /\ disk = NoFile
    /\ last = Stmt("", 0, "", "")
    /\ result = <<>>
    /\ issued = [n \in TableNames |-> 0]
    /\ created = [h \in Handles \cup {0} |-> <<>>]

Max(a, b) == IF a > b THEN a ELSE b

\* the list of created tables once handle h saved, when the statement did
Saved(err, c, h) == IF err = "" THEN [c EXCEPT ![0] = c[h]] ELSE created

CreateTable(h, names, defs) ==
    \E name \in names, col_defs \in defs :
        \E r \in {_parse_create_table(db[h], disk, name, col_defs)} :
           /\ db' = [db EXCEPT ![h] = r.tables]
           /\ disk' = r.file
           /\ last' = [Stmt("CREATE TABLE", h, name, r.err) EXCEPT
                          !.col_defs = col_defs]
           /\ result' = <<>>
           /\ issued' = IF r.err = "" THEN [issued EXCEPT ![name] = 0]
                        ELSE issued
           /\ created' = Saved(r.err,
                              [created EXCEPT ![h] =
                                  Append(@, [name |-> name, col_defs |-> col_defs])],
                              h)

DropTable(h, names) ==
    \E name \in names :
        \E r \in {_parse_drop_table(db[h], disk, name)} :
           /\ db' = [db EXCEPT ![h] = r.tables]
           /\ disk' = r.file
           /\ last' = Stmt("DROP TABLE", h, name, r.err)
           /\ result' = <<>>
           /\ issued' = IF r.err = "" THEN [issued EXCEPT ![name] = 0]
                        ELSE issued
           /\ created' = Saved(r.err,
                              [created EXCEPT ![h] =
                                  SelectSeq(@, LAMBDA e : e.name # name)],
                              h)

Insert(h, names, inserts) ==
    \E name \in names, values \in inserts :
        \E r \in {_parse_insert(db[h], disk, name, values)} :
           /\ get_table(db[h], name).tbl.next_id <= MaxId
           /\ db' = [db EXCEPT ![h] = r.tables]
           /\ disk' = r.file
           /\ last' = [Stmt("INSERT", h, name, r.err) EXCEPT
                          !.row_id = r.row_id, !.values = values]
           /\ result' = <<>>
           /\ issued' = IF r.err = ""
                        THEN [issued EXCEPT ![name] = Max(@, r.row_id)]
                        ELSE issued
           /\ created' = Saved(r.err, created, h)

\* INSERT given as its column list and its value list
InsertLists(h, names, column_lists, value_lists) ==
    \E name \in names, columns \in column_lists, values \in value_lists :
        \E r \in {_parse_insert_lists(db[h], disk, name, columns, values)} :
           /\ get_table(db[h], name).tbl.next_id <= MaxId
           /\ db' = [db EXCEPT ![h] = r.tables]
           /\ disk' = r.file
           /\ last' = [Stmt("INSERT", h, name, r.err) EXCEPT
                          !.row_id = r.row_id, !.columns = columns,
                          !.set = values]
           /\ result' = <<>>
           /\ issued' = IF r.err = ""
                        THEN [issued EXCEPT ![name] = Max(@, r.row_id)]
                        ELSE issued
           /\ created' = Saved(r.err, created, h)

Update(h, names, sets, wheres) ==
    \E name \in names, values \in sets, where_clause \in wheres :
        \E r \in {_parse_update(db[h], disk, name, values, where_clause)} :
           /\ db' = [db EXCEPT ![h] = r.tables]
           /\ disk' = r.file
           /\ last' = [Stmt("UPDATE", h, name, r.err) EXCEPT !.count = r.count]
           /\ result' = <<>>
           /\ created' = Saved(r.err, created, h)
           /\ UNCHANGED issued

\* UPDATE with its SET and WHERE clauses kept in the record of the statement
UpdateStatement(h, names, sets, wheres) ==
    \E name \in names, values \in sets, where_clause \in wheres :
        \E r \in {_parse_update(db[h], disk, name, values, where_clause)} :
           /\ db' = [db EXCEPT ![h] = r.tables]
           /\ disk' = r.file
           /\ last' = [Stmt("UPDATE", h, name, r.err) EXCEPT
                          !.count = r.count, !.set = values,
                          !.where = where_clause]
           /\ result' = <<>>
           /\ created' = Saved(r.err, created, h)
           /\ UNCHANGED issued

Delete(h, names, wheres) ==
    \E name \in names, where_clause \in wheres :
        \E r \in {_parse_delete(db[h], disk, name, where_clause)} :
           /\ db' = [db EXCEPT ![h] = r.tables]
           /\ disk' = r.file
           /\ last' = [Stmt("DELETE", h, name, r.err) EXCEPT
                          !.count = r.count, !.where = where_clause]
           /\ result' = <<>>
           /\ created' = Saved(r.err, created, h)
           /\ UNCHANGED issued

CreateIndex(h, names, cols) ==
    \E name \in names, column_name \in cols :
        \E r \in {_parse_create_index(db[h], disk, name, column_name)} :
           /\ db' = [db EXCEPT ![h] = r.tables]
           /\ disk' = r.file
           /\ last' = [Stmt("CREATE INDEX", h, name, r.err) EXCEPT
                          !.columns = <<column_name>>]
           /\ result' = <<>>
           /\ created' = Saved(r.err, created, h)
           /\ UNCHANGED issued

Select(h, names, column_lists, wheres) ==
    \E name \in names, columns \in column_lists, where_clause \in wheres :
        \E r \in {_parse_select(db[h], name, columns, where_clause)} :
           /\ last' = [Stmt("SELECT", h, name, r.err) EXCEPT
                          !.where = where_clause, !.columns = columns]
           /\ result' = r.rows
           /\ UNCHANGED <<db, disk, issued, created>>

\* a statement no handler accepts
Unsupported(h) ==
    /\ last' = Stmt("", h, "", "SyntaxError")
    /\ result' = <<>>
    /\ UNCHANGED <<db, disk, issued, created>>

\* the process ends and a new one constructs the handle again
Open(h) ==
    /\ db' = [db EXCEPT ![h] = Database(disk)]
    /\ last' = Stmt("OPEN", h, "", "")
    /\ result' = <<>>
    /\ created' = [created EXCEPT ![h] = created[0]]
    /\ UNCHANGED <<disk, issued>>

Describe(h, names) ==
    \E name \in names :
        \E r \in {_parse_describe(db[h], name)} :
           /\ last' = Stmt("DESCRIBE", h, name, r.err)
           /\ result' = r.rows
           /\ UNCHANGED <<db, disk, issued, created>>

ShowTables(h) ==
    /\ last' = Stmt("SHOW TABLES", h, "", "")
    /\ result' = show_tables(db[h])
    /\ UNCHANGED <<db, disk, issued, created>>

\* a caller of the Table API updates a table of the handle directly, with
\* values of its own (None among them); nothing is saved
TableUpdate(h, names, sets) ==
    \E name \in names, values \in sets :
        \E g \in {get_table(db[h], name)} :
        \E r \in {update(g.tbl, values, NoWhere)} :
           /\ g.err = ""
           /\ db' = [db EXCEPT ![h] = Mutated(db[h], r.tbl)]
           /\ last' = [Stmt("Table.update", h, name, r.err) EXCEPT
                          !.count = r.count, !.set = values]
           /\ result' = <<>>
           /\ UNCHANGED <<disk, issued, created>>

Join(h, names, column_lists, ons) ==
    \E left \in names, columns \in column_lists, cols \in ons :
        \E right \in names \ {left} :
        \E on \in {[left_table |-> left, left_col |-> cols[1],
                    right_table |-> right, right_col |-> cols[2]]} :
        \E r \in {_parse_select_with_join(db[h], columns, left, right, on)} :
           /\ last' = [Stmt("JOIN", h, left, r.err) EXCEPT
                          !.right = right, !.on = on, !.columns = columns]
           /\ result' = r.rows
           /\ UNCHANGED <<db, disk, issued, created>>

(***************************************************************************)
(* The main specification: one handle, one table, every mutating statement.*)
(***************************************************************************)
Next ==
    \/ CreateTable(1, {"t"}, {GoodDef} \cup BadDefs)
    \/ DropTable(1, {"t"})
    \/ Insert(1, {"t"}, MainInserts)
    \/ Update(1, {"t"}, SetClauses, WhereClauses)
    \/ Delete(1, {"t"}, WhereClauses)
    \/ CreateIndex(1, {"t"}, {"v", "w"})
    \/ Unsupported(1)
    \/ Open(1)

Spec == Init /\ [][Next]_vars

(***************************************************************************)
(* Properties of the main specification.                                   *)
(***************************************************************************)
Mutating ==
    {"CREATE TABLE", "DROP TABLE", "INSERT", "UPDATE", "DELETE", "CREATE INDEX"}

\* the non-null values column c takes in the rows, and the ids holding one
ValuesOf(tbl, c) ==
    {Get(tbl.rows[k].data, c) : k \in 1..Len(tbl.rows)} \ {None}
IdsHolding(tbl, c, v) ==
    {tbl.rows[k].id : k \in {j \in 1..Len(tbl.rows) : Get(tbl.rows[j].data, c) = v}}

\* every index holds, for each value of its column, exactly the ids of the
\* rows holding it, and no other bucket
IndexesMatchRows(tbl) ==
    \A c \in DOMAIN tbl.indexes :
        /\ DOMAIN tbl.indexes[c] = ValuesOf(tbl, c)
        /\ \A v \in ValuesOf(tbl, c) : tbl.indexes[c][v] = IdsHolding(tbl, c, v)

\* no two rows hold the same non-null value in a primary-key or unique column
UniqueHeld(tbl) ==
    \A k \in 1..Len(tbl.columns) :
        (tbl.columns[k].primary_key \/ tbl.columns[k].unique) =>
            \A i, j \in 1..Len(tbl.rows) :
                (/\ i # j
                 /\ tbl.rows[i].data[tbl.columns[k].name] # None
                 /\ tbl.rows[i].data[tbl.columns[k].name]
                        = tbl.rows[j].data[tbl.columns[k].name]) => FALSE

\* the table the last statement named, in the handle that ran it
LastTable == get_table(db[last.h], last.table).tbl

\* C1: an UPDATE that raises DuplicateValue, NullConstraintViolation,
\* TypeConversionError or UnknownColumn leaves every row and every index of
\* the table as they were before the statement.
C1_UpdateAtomic ==
    [][(/\ last'.op = "UPDATE"
        /\ last'.err \in {"DuplicateValue", "NullConstraintViolation",
                          "TypeConversionError", "UnknownColumn"})
       => db' = db]_vars

\* C2: right after a successful insert, update, delete or create_index on a
\* table, every index of the table matches the row store.
C2_IndexesMatchAfterMutation ==
    (last.op \in {"INSERT", "UPDATE", "DELETE", "CREATE INDEX"} /\ last.err = "")
        => IndexesMatchRows(LastTable)

\* C3: in every reachable state no table, in memory or in the snapshot,
\* holds two rows with the same non-null value in a primary-key or unique
\* column.
C3_Uniqueness ==
    /\ \A h \in Handles : \A k \in 1..Len(db[h]) : UniqueHeld(db[h][k])
    /\ \A k \in 1..Len(disk.tables) : UniqueHeld(disk.tables[k])

\* the insert's validated value for a primary-key or unique column is held
\* by a row of the table
Collides(tbl, values) ==
    \E k \in 1..Len(tbl.columns) :
        LET col == tbl.columns[k]
            r == validate(col, Get(values, col.name))
        IN /\ col.primary_key \/ col.unique
           /\ r.err = ""
           /\ r.v # None
           /\ IdsHolding(tbl, col.name, r.v) # {}

\* C4: an insert whose validated value for a primary-key or unique column is
\* held by an existing row raises DuplicateValue and leaves the table (rows,
\* next_id, indexes) unchanged.
C4_DuplicateInsertRejected ==
    [][(/\ last'.op = "INSERT"
        /\ last'.table \in TableNamesOf(db[last'.h])
        /\ Collides(get_table(db[last'.h], last'.table).tbl, last'.values))
       => (last'.err = "DuplicateValue" /\ db' = db)]_vars

\* C5: after every successful mutating statement the snapshot file holds
\* exactly the tables of the handle that ran it.
C5_SnapshotEqualsMemory ==
    (last.op \in Mutating /\ last.err = "")
        => (disk.exists /\ load(disk) = db[last.h])

\* a successful UPDATE of two rows was saved
C5_Witness ==
    /\ last.op = "UPDATE" /\ last.err = "" /\ last.count = 2
    /\ load(disk) = db[last.h]

\* C6: a statement that fails leaves the snapshot file as it was.
C6_FailureKeepsSnapshot ==
    [][last'.err # "" => disk' = disk]_vars

\* an UPDATE failed after changing the tables in memory; the file still
\* holds the tables as last saved
C6_Witness ==
    /\ last.op = "UPDATE" /\ last.err = "DuplicateValue"
    /\ disk.exists /\ load(disk) # db[last.h]

\* the values validate and no row holds the value given for a primary-key
\* or unique column
Insertable(tbl, values) ==
    \A k \in 1..Len(tbl.columns) :
        LET col == tbl.columns[k]
            r == validate(col, Get(values, col.name))
        IN /\ r.err = ""
           /\ (col.primary_key \/ col.unique) => IdsHolding(tbl, col.name, r.v) = {}

\* C8: a successful insert returns an id greater than every id the table
\* issued before, across failed statements and reopening; and right after a
\* delete removed rows, an insert whose key no remaining row holds succeeds.
C8_RowIdsNeverReused ==
    [][last'.op = "INSERT" =>
        /\ last'.err = "" => last'.row_id > issued[last'.table]
        /\ (/\ last.op = "DELETE" /\ last.err = "" /\ last.count > 0
            /\ last.table = last'.table
            /\ Insertable(LastTable, last'.values))
           => last'.err = ""]_vars

\* row 1 was inserted and deleted; the insert of primary key 1 that followed
\* succeeded and got id 2
C8_Witness ==
    /\ last.op = "INSERT" /\ last.err = "" /\ last.row_id = 2
    /\ "id" \in DOMAIN last.values /\ last.values["id"] = StrV("1")
    /\ Len(LastTable.rows) = 1
    /\ LastTable.rows[1].id = 2

(***************************************************************************)
(* Persistence: two tables written by handle 1; either handle is           *)
(* constructed from the snapshot file.                                     *)
(***************************************************************************)
DbInserts == {f \in PlainInserts : DOMAIN f = {"id"} \/ f["id"] = f["v"]}

NextDb ==
    \/ CreateTable(1, TableNames, {GoodDef})
    \/ DropTable(1, {"u"})
    \/ Insert(1, {"t"}, DbInserts)
    \/ CreateIndex(1, {"t"}, {"v"})
    \/ Update(1, {"t"}, {Assign("id", "x")}, {<<>>})
    \/ \E h \in Handles : Open(h)

SpecDb == Init /\ [][NextDb]_vars

\* C7: when a handle is constructed right after a statement saved the
\* database, its tables are those of the handle that saved: same tables in
\* the same order, same columns, rows, next_id and indexes.
C7_ReloadYieldsSavedTables ==
    [][(last.op \in Mutating /\ last.err = "" /\ last'.op = "OPEN")
       => db'[last'.h] = db[last.h]]_vars

\* a second handle was constructed on a snapshot of two tables, u created
\* before t, t holding a row and an index on v
C7_Witness ==
    /\ last.op = "OPEN" /\ last.h = 2
    /\ Len(db[2]) = 2 /\ db[2][1].name = "u" /\ db[2][2].name = "t"
    /\ Len(db[2][2].rows) > 0 /\ db[2][2].next_id > 1
    /\ "v" \in DOMAIN db[2][2].indexes
    /\ db[2] = db[1]

(***************************************************************************)
(* Queries on one table.                                                   *)
(***************************************************************************)
NextSelect ==
    \/ CreateTable(1, {"t"}, {GoodDef})
    \/ Insert(1, {"t"}, PlainInserts)
    \/ Delete(1, {"t"}, {Clause("id", "=", "1")})
    \/ Select(1, {"t"}, {AllColumns, <<"v">>}, SelectClauses)

SpecSelect == Init /\ [][NextSelect]_vars

\* the filter of operator op on column c against the literal x
FilterOf(c, op, x) == [col |-> c, op |-> op, value |-> Coerce(x)]

\* C9: a SELECT with the clause `c op x` returns the rows that the filter
\* of operator op on column c against x selects (whenever that filter can be
\* evaluated on every row), for each of the six operators.
C9_WhereCompiledAsWritten ==
    (last.op = "SELECT" /\ last.table \in TableNamesOf(db[last.h])) =>
        \A c \in {"id", "v"}, op \in Ops, x \in {"1", "2"} :
            last.where = Clause(c, op, x) =>
                LET want == select(LastTable, last.columns, FilterOf(c, op, x))
                IN want.err = "" => (last.err = "" /\ result = want.rows)

\* C9 holds of the operators =, > and <
C9_SingleCharacterOperators ==
    (last.op = "SELECT" /\ last.table \in TableNamesOf(db[last.h])) =>
        \A c \in {"id", "v"}, op \in {"=", ">", "<"}, x \in {"1", "2"} :
            last.where = Clause(c, op, x) =>
                LET want == select(LastTable, last.columns, FilterOf(c, op, x))
                IN want.err = "" => (last.err = "" /\ result = want.rows)

(***************************************************************************)
(* Joins of two tables.                                                    *)
(***************************************************************************)
JoinColumnLists == {AllColumns, << <<"", "id">>, <<"u", "v">> >>}

NextJoin ==
    \/ CreateTable(1, TableNames, {GoodDef})
    \/ Insert(1, TableNames, DbInserts)
    \/ Join(1, TableNames, JoinColumnLists, {<<"id", "v">>, <<"v", "v">>})

SpecJoin == Init /\ [][NextJoin]_vars

\* the tables of the last JOIN
LeftTable == get_table(db[last.h], last.table).tbl
RightTable == get_table(db[last.h], last.right).tbl

\* the pairs of positions of a left and a right row whose ON values are equal
MatchingPairs ==
    {p \in (1..Len(LeftTable.rows)) \X (1..Len(RightTable.rows)) :
        PyEq(LeftTable.rows[p[1]].data[last.on.left_col],
             RightTable.rows[p[2]].data[last.on.right_col])}

\* the requested columns as (table, column), unqualified ones on the left
Requested ==
    IF last.columns = AllColumns
    THEN {<<LeftTable.name, c>> : c \in ColumnNames(LeftTable)}
         \cup {<<RightTable.name, c>> : c \in ColumnNames(RightTable)}
    ELSE {<<IF last.columns[k][1] = "" THEN last.table ELSE last.columns[k][1],
            last.columns[k][2]>> : k \in 1..Len(last.columns)}

\* the result row of a pair: one key table.col per requested column, its
\* value from the row of that table
PairRow(p) ==
    [key \in {rc[1] \o "." \o rc[2] : rc \in Requested} |->
        LET rc == CHOOSE x \in Requested : x[1] \o "." \o x[2] = key
        IN IF rc[1] = last.table THEN LeftTable.rows[p[1]].data[rc[2]]
           ELSE RightTable.rows[p[2]].data[rc[2]]]

\* C10: L INNER JOIN R ON L.a = R.b returns one row per pair of current
\* rows with equal ON values and no other row, each row keyed table.col per
\* requested column with the value from the row of that table.
C10_JoinReturnsMatchingPairs ==
    (last.op = "JOIN" /\ last.err = "") =>
        /\ Len(result) = Cardinality(MatchingPairs)
        /\ \A p \in MatchingPairs :
              Cardinality({k \in 1..Len(result) : result[k] = PairRow(p)})
                  = Cardinality({q \in MatchingPairs : PairRow(q) = PairRow(p)})
        /\ \A k \in 1..Len(result) : \E p \in MatchingPairs : result[k] = PairRow(p)

\* a join of two rows of t with two rows of u returned one row for its one
\* matching pair and none for the three others
C10_Witness ==
    /\ last.op = "JOIN" /\ last.err = "" /\ last.table = "t"
    /\ last.columns # AllColumns
    /\ Len(LeftTable.rows) = 2 /\ Len(RightTable.rows) = 2
    /\ Cardinality(MatchingPairs) = 1
    /\ Len(result) = 1

(***************************************************************************)
(* The row specification: one table of typed columns; inserts, SQL and     *)
(* direct updates, deletes, index creation and reopening.  The query       *)
(* specification: that table, or one holding a column named like the key   *)
(* select adds, with every mutation and the queries.                       *)
(***************************************************************************)
\* CREATE TABLE t (id INTEGER PRIMARY KEY, s TEXT NOT NULL, b BOOLEAN, f FLOAT)
RowDef ==
    << <<"id", "INTEGER", "PRIMARY", "KEY">>, <<"s", "TEXT", "NOT", "NULL">>,
       <<"b", "BOOLEAN">>, <<"f", "FLOAT">> >>

\* CREATE TABLE t (_row_id INTEGER, v INTEGER)
ReservedDef == << <<"_row_id", "INTEGER">>, <<"v", "INTEGER">> >>

\* the INSERT statements: complete rows, rows leaving columns out, a row
\* without the NOT NULL column, without the primary key, and one whose
\* first literal is no number
RowInserts ==
    { [id |-> StrV("1"), s |-> StrV("a"), b |-> StrV("TRUE"), f |-> StrV("2")],
      [id |-> StrV("2"), s |-> StrV("1")],
      [id |-> StrV("2")],
      [id |-> StrV("x")],
      [s |-> StrV("a")] }

\* UPDATE t SET ...
RowSets == {Assign("id", "2"), Assign("s", "b"), Assign("v", "x")}

\* Table.update(values) called with values of the caller's own: None for a
\* column, alone or after an assignment that fails first
AssignNone(col) == <<[col |-> col, val |-> None]>>
TableSets ==
    {AssignNone("id"), AssignNone("s"), AssignNone("f"),
     Assign("id", "x") \o AssignNone("s")}

RowWheres ==
    {<<>>, Clause("id", "=", "1"), Clause("id", ">", "1"), Clause("s", "=", "a"),
     Clause("f", "<", "3")}

NextRows ==
    \/ CreateTable(1, {"t"}, {RowDef})
    \/ DropTable(1, {"t"})
    \/ Insert(1, {"t"}, RowInserts)
    \/ Update(1, {"t"}, RowSets, {<<>>, Clause("id", "=", "1")})
    \/ TableUpdate(1, {"t"}, TableSets)
    \/ Delete(1, {"t"}, RowWheres)
    \/ CreateIndex(1, {"t"}, {"id", "s", "v"})
    \/ Open(1)

SpecRows == Init /\ [][NextRows]_vars

QueryInserts ==
    { [id |-> StrV("1"), s |-> StrV("a"), b |-> StrV("TRUE"), f |-> StrV("2")],
      [id |-> StrV("2"), s |-> StrV("1")],
      [id |-> StrV("x")],
      [_row_id |-> StrV("2"), v |-> StrV("1")],
      [_row_id |-> StrV("1")] }

QueryWheres ==
    {<<>>, Clause("id", ">", "1"), Clause("s", "=", "a"), Clause("f", "<", "3"),
     Clause("v", "=", "1")}

QueryColumnLists == {AllColumns, <<"s", "id">>, <<"_row_id">>}

NextQuery ==
    \/ CreateTable(1, {"t"}, {RowDef, ReservedDef})
    \/ DropTable(1, {"t"})
    \/ Insert(1, {"t"}, QueryInserts)
    \/ Update(1, {"t"}, {Assign("s", "b"), Assign("id", "x")}, {Clause("id", "=", "1")})
    \/ Delete(1, {"t"}, {Clause("id", "=", "1"), Clause("v", "=", "1")})
    \/ Select(1, {"t"}, QueryColumnLists, QueryWheres)
    \/ Open(1)

SpecQuery == Init /\ [][NextQuery]_vars

(***************************************************************************)
(* Properties of the query specification.                                  *)
(***************************************************************************)
\* the table of that name before and after the step that is being taken
TableBefore(name) == get_table(db[last'.h], name).tbl
TableAfter(name) == get_table(db'[last'.h], name).tbl

\* what SELECT * FROM the table returns
SelectAll(tbl) == select(tbl, AllColumns, NoWhere).rows

\* the declared type's coercion of the literal the INSERT gave column c
Coerced(tbl, values, c) == validate(ColumnOf(tbl, c), Get(values, c)).v

\* the step is a successful INSERT after which SELECT * returns every row it
\* returned before, and exactly one row with the id the insert returned,
\* carrying the coerced literal (null when there is none) in every column
InsertRoundTrips ==
    LET before == SelectAll(TableBefore(last'.table))
        after == SelectAll(TableAfter(last'.table))
        new == {k \in 1..Len(after) : after[k]["_row_id"] = IntV(last'.row_id)}
    IN /\ Cardinality(new) = 1
       /\ \A k \in new : \A c \in ColumnNames(TableAfter(last'.table)) :
              after[k][c] = Coerced(TableAfter(last'.table), last'.values, c)
       /\ \A j \in 1..Len(before) : \E k \in 1..Len(after) : after[k] = before[j]

\* C11: after a successful INSERT, SELECT * returns one row for it, with the
\* coerced literal of every declared column (null for a column the INSERT
\* did not name) and the returned row id, and still returns every row it
\* returned before, unchanged.
C11_InsertThenSelectAll ==
    [][(last'.op = "INSERT" /\ last'.err = "") => InsertRoundTrips]_vars

\* C11 holds of the tables that have no column named _row_id
C11_WithoutReservedColumn ==
    [][(/\ last'.op = "INSERT" /\ last'.err = ""
        /\ "_row_id" \notin ColumnNames(TableAfter(last'.table)))
       => InsertRoundTrips]_vars

\* the columns a SELECT projects: the declared ones for *
RequestedColumns(tbl, columns) ==
    LET cols == IF columns = AllColumns THEN column_order(tbl) ELSE columns
    IN {cols[j] : j \in 1..Len(cols)}

\* the positions of the rows the compiled WHERE clause accepts
Matching(tbl, where_clause) ==
    {k \in 1..Len(tbl.rows) :
        Matches(parse_where(where_clause).where, tbl.rows[k].data) = "T"}

\* the result holds, in ascending row-id order, exactly one row per matching
\* row of the table, carrying the row's id and its value of every requested
\* column
SelectedAsStored(tbl, rows) ==
    /\ Len(rows) = Cardinality(Matching(tbl, last'.where))
    /\ \A i, j \in 1..Len(rows) : i < j => rows[i]["_row_id"].n < rows[j]["_row_id"].n
    /\ \A k \in Matching(tbl, last'.where) : \E j \in 1..Len(rows) :
          /\ rows[j]["_row_id"] = IntV(tbl.rows[k].id)
          /\ DOMAIN rows[j] = RequestedColumns(tbl, last'.columns) \cup {"_row_id"}
          /\ \A c \in RequestedColumns(tbl, last'.columns) :
                rows[j][c] = Get(tbl.rows[k].data, c)

\* C14: a SELECT returns exactly the current rows its predicate accepts, each
\* once, in ascending row-id order, projected onto the requested columns (the
\* declared ones by default), and changes neither the tables nor the snapshot.
C14_SelectReturnsMatchingRows ==
    [][(last'.op = "SELECT" /\ last'.err = "") =>
          /\ SelectedAsStored(TableBefore(last'.table), result')
          /\ db' = db /\ disk' = disk]_vars

\* C14 holds of the queries that request no column named _row_id
C14_WithoutReservedColumn ==
    [][(/\ last'.op = "SELECT" /\ last'.err = ""
        /\ "_row_id" \notin RequestedColumns(TableBefore(last'.table),
                                            last'.columns)) =>
          /\ SelectedAsStored(TableBefore(last'.table), result')
          /\ db' = db /\ disk' = disk]_vars

\* C15: every row a SELECT returns carries the stored value of every
\* requested column of the table and, under a key that is none of the
\* requested columns, the row's identifier.
C15_RowIdentifierNeverCollides ==
    (last.op = "SELECT" /\ last.err = "") =>
        \A j \in 1..Len(result) : \E k \in 1..Len(LastTable.rows) :
            LET requested == RequestedColumns(LastTable, last.columns)
                               \cap ColumnNames(LastTable)
            IN /\ \A c \in requested :
                      result[j][c] = Get(LastTable.rows[k].data, c)
               /\ \E key \in DOMAIN result[j] \ requested :
                      result[j][key] = IntV(LastTable.rows[k].id)

\* C15 holds of the tables that have no column named _row_id
C15_WithoutReservedColumn ==
    (last.op = "SELECT" /\ last.err = ""
        /\ "_row_id" \notin ColumnNames(LastTable)) =>
        \A j \in 1..Len(result) : \E k \in 1..Len(LastTable.rows) :
            /\ \A c \in RequestedColumns(LastTable, last.columns)
                          \cap ColumnNames(LastTable) :
                   result[j][c] = Get(LastTable.rows[k].data, c)
            /\ result[j]["_row_id"] = IntV(LastTable.rows[k].id)

(***************************************************************************)
(* The schema specification: two tables created from definitions with     *)
(* every flag, with column names that hold a flag keyword, with a column   *)
(* name given twice and with two primary keys; rows, a failing update,     *)
(* index creation, DESCRIBE, SHOW TABLES and reopening.                    *)
(***************************************************************************)
\* CREATE TABLE name (id INTEGER PRIMARY KEY, v TEXT UNIQUE NOT NULL)
UniqueDef ==
    << <<"id", "INTEGER", "PRIMARY", "KEY">>,
       <<"v", "TEXT", "UNIQUE", "NOT", "NULL">> >>

\* column names in which a flag keyword occurs
UniqueIdDef == << <<"unique_id", "INTEGER">>, <<"v", "INTEGER">> >>
PrimaryKeyDef == << <<"primary_key", "INTEGER">>, <<"v", "TEXT", "UNIQUE">> >>
NullableNoteDef ==
    << <<"id", "INTEGER", "PRIMARY", "KEY">>, <<"nullable_note", "TEXT">> >>

\* CREATE TABLE name (a INTEGER NOT NULL, a TEXT)
TwiceDef == << <<"a", "INTEGER", "NOT", "NULL">>, <<"a", "TEXT">> >>

SchemaDefs ==
    {GoodDef, UniqueDef, UniqueIdDef, PrimaryKeyDef, NullableNoteDef, TwiceDef,
     TwoKeysDef}

SchemaInserts ==
    { [id |-> StrV("1"), v |-> StrV("a")], [id |-> StrV("2"), v |-> StrV("a")] }

NextSchema ==
    \/ CreateTable(1, TableNames, SchemaDefs)
    \/ DropTable(1, TableNames)
    \/ Insert(1, {"t"}, SchemaInserts)
    \/ Update(1, {"t"}, {Assign("id", "x")}, {<<>>})
    \/ CreateIndex(1, {"t"}, {"id", "v"})
    \/ Describe(1, TableNames)
    \/ ShowTables(1)
    \/ Open(1)

SpecSchema == Init /\ [][NextSchema]_vars

\* the accepted CREATE TABLE statement of the table the last statement named
Declared ==
    LET at == {k \in 1..Len(created[last.h]) : created[last.h][k].name = last.table}
    IN created[last.h][CHOOSE k \in at : TRUE].col_defs

\* the flag tokens of a column definition: the words after name and type
FlagTokens(parts) == {parts[j] : j \in 3..Len(parts)}

\* the descriptor of a column definition whose flags are its flag tokens
Descriptor(parts) ==
    LET pk == {"PRIMARY", "KEY"} \subseteq FlagTokens(parts)
    IN <<parts[1], parts[2]>>
       \o (IF pk THEN <<"PRIMARY KEY">> ELSE <<>>)
       \o (IF "UNIQUE" \in FlagTokens(parts) THEN <<"UNIQUE">> ELSE <<>>)
       \o (IF pk \/ {"NOT", "NULL"} \subseteq FlagTokens(parts)
           THEN <<"NOT NULL">> ELSE <<>>)

DescribedAsDeclared ==
    result = [k \in 1..Len(Declared) |-> Descriptor(Declared[k])]

\* C12: DESCRIBE of a table returns one descriptor per column of the accepted
\* CREATE TABLE statement, in declared order, with exactly the flags written
\* as flag tokens in the column's definition (and NOT NULL for a primary
\* key).
C12_DescribeAsDeclared ==
    (last.op = "DESCRIBE" /\ last.err = "") => DescribedAsDeclared

\* C12 holds of the definitions whose column names are distinct and hold no
\* flag keyword
C12_PlainColumnNames ==
    (last.op = "DESCRIBE" /\ last.err = "" /\ Declared \in {GoodDef, UniqueDef})
        => DescribedAsDeclared

(***************************************************************************)
(* Properties of the row specification.                                    *)
(***************************************************************************)
\* the columns of the table that are NOT NULL or PRIMARY KEY, by position
Required(tbl) ==
    {k \in 1..Len(tbl.columns) :
        tbl.columns[k].not_null \/ tbl.columns[k].primary_key}

\* no row of the table holds null in a required column
NullFree(tbl) ==
    \A k \in Required(tbl) : \A i \in 1..Len(tbl.rows) :
        Get(tbl.rows[i].data, tbl.columns[k].name) # None

NullFreeEverywhere ==
    /\ \A h \in Handles : \A k \in 1..Len(db[h]) : NullFree(db[h][k])
    /\ \A k \in 1..Len(disk.tables) : NullFree(disk.tables[k])

\* the required columns the INSERT leaves out
Omitted(tbl, values) ==
    {k \in Required(tbl) : Get(values, tbl.columns[k].name) = None}

\* insert rejects the value the statement has for the column at position j
Rejected(tbl, values, j) ==
    LET col == tbl.columns[j]
        r == validate(col, Get(values, col.name))
    IN \/ r.err # ""
       \/ /\ r.v # None
          /\ (col.unique \/ col.primary_key)
          /\ col.name \in DOMAIN tbl.indexes
          /\ find(tbl.indexes[col.name], r.v) # {}

\* the assignments of an update that give None to a required column
NullAssigned(tbl, values) ==
    {j \in 1..Len(values) :
        /\ values[j].val = None
        /\ \E k \in Required(tbl) : tbl.columns[k].name = values[j].col}

\* C13: no stored row ever holds null in a NOT NULL or PRIMARY KEY column.
\* An insert that leaves such a column out fails, with
\* NullConstraintViolation when insert rejects no column declared before it;
\* an update that assigns null to such a column fails when the table has a
\* row to update, with NullConstraintViolation when that is its first
\* assignment, and returns 0 when the table has no row.
C13_Nullability ==
    [][/\ NullFreeEverywhere'
       /\ (last'.op = "INSERT" /\ last'.table \in TableNamesOf(db[last'.h])) =>
             LET tbl == TableBefore(last'.table)
             IN \A k \in Omitted(tbl, last'.values) :
                   /\ last'.err # ""
                   /\ (\A j \in 1..(k - 1) : ~Rejected(tbl, last'.values, j))
                          => last'.err = "NullConstraintViolation"
       /\ last'.op = "Table.update" =>
             LET tbl == TableBefore(last'.table)
             IN NullAssigned(tbl, last'.set) # {} =>
                   IF tbl.rows = <<>> THEN last'.err = "" /\ last'.count = 0
                   ELSE /\ last'.err # ""
                        /\ 1 \in NullAssigned(tbl, last'.set)
                              => last'.err = "NullConstraintViolation"]_vars

\* a direct update that assigned null to a required column of a table
\* holding rows was refused
C13_Witness ==
    /\ last.op = "Table.update" /\ last.err = "NullConstraintViolation"
    /\ LastTable.rows # <<>> /\ NullFree(LastTable)
    /\ last.set = AssignNone("s")

\* C13 as stated: every insert that leaves a required column out, and every
\* update that assigns null to one, fails with NullConstraintViolation
C13_AlwaysNullConstraintViolation ==
    [][/\ NullFreeEverywhere'
       /\ (last'.op = "INSERT" /\ last'.table \in TableNamesOf(db[last'.h])) =>
             (Omitted(TableBefore(last'.table), last'.values) # {}
                 => last'.err = "NullConstraintViolation")
       /\ last'.op = "Table.update" =>
             (NullAssigned(TableBefore(last'.table), last'.set) # {}
                 => last'.err = "NullConstraintViolation")]_vars

(***************************************************************************)
(* Properties of the schema specification.                                 *)
(***************************************************************************)
\* the column definitions that declare a primary key, by position, and the
\* names of those that declare a primary key or UNIQUE
DeclaredKeys(col_defs) ==
    {k \in 1..Len(col_defs) : {"PRIMARY", "KEY"} \subseteq FlagTokens(col_defs[k])}
DeclaredIndexed(col_defs) ==
    {col_defs[k][1] : k \in DeclaredKeys(col_defs)
                          \cup {j \in 1..Len(col_defs) :
                                   "UNIQUE" \in FlagTokens(col_defs[j])}}

\* the accepted CREATE TABLE statement of the table of that name
DeclaredOf(made, name) ==
    made[CHOOSE k \in 1..Len(made) : made[k].name = name].col_defs

\* every table has at most one primary-key column and an index on every
\* column that is, or was declared, PRIMARY KEY or UNIQUE
SchemaKept(tables, made) ==
    \A k \in 1..Len(tables) :
        LET tbl == tables[k]
        IN /\ Cardinality({j \in 1..Len(tbl.columns) :
                              tbl.columns[j].primary_key}) <= 1
           /\ DeclaredIndexed(DeclaredOf(made, tbl.name)) \subseteq DOMAIN tbl.indexes
           /\ \A j \in 1..Len(tbl.columns) :
                 (tbl.columns[j].primary_key \/ tbl.columns[j].unique)
                     => tbl.columns[j].name \in DOMAIN tbl.indexes

SchemaKeptEverywhere ==
    /\ \A h \in Handles : SchemaKept(db[h], created[h])
    /\ SchemaKept(disk.tables, created[0])

\* the step is a CREATE TABLE that declares two primary-key columns
TwoKeysDeclared ==
    last'.op = "CREATE TABLE" /\ Cardinality(DeclaredKeys(last'.col_defs)) >= 2

\* C16: in every state each table has at most one primary-key column and an
\* index on every PRIMARY KEY or UNIQUE column; a CREATE TABLE declaring two
\* primary-key columns fails, registers no table and writes no snapshot, with
\* MultiplePrimaryKey when the name is free and DuplicateTable when it is
\* taken.
C16_OnePrimaryKeyAndIndexes ==
    [][/\ SchemaKeptEverywhere'
       /\ TwoKeysDeclared =>
             /\ db' = db /\ disk' = disk
             /\ last'.err = IF last'.table \in TableNamesOf(db[last'.h])
                            THEN "DuplicateTable" ELSE "MultiplePrimaryKey"]_vars

\* a CREATE TABLE with two primary keys was refused while a table with a
\* primary key, a unique column and a row lost index entries to a failing
\* update
C16_Witness ==
    /\ last.op = "CREATE TABLE" /\ last.err = "MultiplePrimaryKey"
    /\ last.table = "u" /\ TableNamesOf(db[1]) = {"t"}
    /\ DeclaredOf(created[1], "t") = UniqueDef
    /\ get_table(db[1], "t").tbl.rows # <<>>
    /\ ~IndexesMatchRows(get_table(db[1], "t").tbl)

\* C16 as stated: every CREATE TABLE declaring two primary-key columns fails
\* with MultiplePrimaryKey
C16_AlwaysMultiplePrimaryKey ==
    [][/\ SchemaKeptEverywhere'
       /\ TwoKeysDeclared =>
             /\ db' = db /\ disk' = disk
             /\ last'.err = "MultiplePrimaryKey"]_vars

(***************************************************************************)
(* The delete specification: two tables with rows, an index on v, a        *)
(* failing update that empties index buckets, and deletes with and without *)
(* a WHERE clause.                                                         *)
(***************************************************************************)
DeleteInserts ==
    { [id |-> StrV("1"), v |-> StrV("1")], [id |-> StrV("2"), v |-> StrV("1")],
      [id |-> StrV("2")] }

\* no clause, clauses that accept some rows, one that raises on a null v,
\* one compiled on a column no row has, and one without an operator
DeleteWheres ==
    {<<>>, Clause("id", "=", "1"), Clause("v", "=", "1"), Clause("v", ">", "0"),
     Clause("v", "!=", "2"), <<"id", " ", "1">>}

NextDelete ==
    \/ CreateTable(1, TableNames, {GoodDef})
    \/ Insert(1, TableNames, DeleteInserts)
    \/ CreateIndex(1, {"t"}, {"v"})
    \/ Update(1, {"t"}, {Assign("id", "x")}, {Clause("id", "=", "2")})
    \/ Delete(1, {"t"}, DeleteWheres)
    \/ Open(1)

SpecDelete == Init /\ [][NextDelete]_vars

\* the ids of the rows the compiled WHERE clause accepts
MatchingIds(tbl, where_clause) ==
    {tbl.rows[k].id : k \in Matching(tbl, where_clause)}

\* the bucket of value v in the index, empty when there is none
Bucket(index, v) == IF v \in DOMAIN index THEN index[v] ELSE {}

\* after holds the rows of before without the removed ones, in their order
\* and with their values; no index holds a removed id, every index holds
\* the other ids as before and has no empty bucket; next_id is the same
DeletedExactly(before, after, removed) ==
    /\ after.rows = SelectSeq(before.rows, LAMBDA r : r.id \notin removed)
    /\ after.next_id = before.next_id
    /\ after.columns = before.columns
    /\ DOMAIN after.indexes = DOMAIN before.indexes
    /\ \A c \in DOMAIN before.indexes :
          /\ DOMAIN after.indexes[c] \subseteq DOMAIN before.indexes[c]
          /\ \A v \in DOMAIN before.indexes[c] :
                Bucket(after.indexes[c], v) = before.indexes[c][v] \ removed
          /\ \A v \in DOMAIN after.indexes[c] : after.indexes[c][v] # {}

\* C17: a DELETE removes exactly the rows its predicate accepts (all rows
\* without one) and their ids from every index, and returns their number;
\* the other rows keep id and values, next_id and the other tables are
\* unchanged.
C17_DeleteRemovesMatchingRows ==
    [][(last'.op = "DELETE" /\ last'.err = "") =>
          LET before == TableBefore(last'.table)
              removed == MatchingIds(before, last'.where)
          IN /\ DeletedExactly(before, TableAfter(last'.table), removed)
             /\ last'.count = Cardinality(removed)
             /\ Len(db'[last'.h]) = Len(db[last'.h])
             /\ \A k \in 1..Len(db[last'.h]) :
                   db[last'.h][k].name # last'.table
                       => db'[last'.h][k] = db[last'.h][k]]_vars

\* a DELETE with a WHERE clause removed one of two rows of t, whose indexes
\* had lost entries to a failing update, while u held a row
C17_Witness ==
    /\ last.op = "DELETE" /\ last.err = "" /\ last.where # <<>>
    /\ last.count = 1 /\ Len(LastTable.rows) = 1
    /\ "v" \in DOMAIN LastTable.indexes
    /\ ~IndexesMatchRows(LastTable)
    /\ "u" \in TableNamesOf(db[1]) /\ get_table(db[1], "u").tbl.rows # <<>>

(***************************************************************************)
(* SHOW TABLES against the record of accepted CREATE TABLE and DROP TABLE  *)
(* statements.                                                             *)
(***************************************************************************)
\* the names of the accepted CREATE TABLE statements not dropped since, in
\* the order of the statements
CreatedNames(made) == [k \in 1..Len(made) |-> made[k].name]

\* C18: SHOW TABLES returns the names of the existing tables in the order of
\* their creation, a re-created table at its new position, in every handle
\* and after reloading the snapshot.
C18_ShowTablesInCreationOrder ==
    /\ \A h \in Handles : show_tables(db[h]) = CreatedNames(created[h])
    /\ show_tables(disk.tables) = CreatedNames(created[0])
    /\ last.op = "SHOW TABLES" => result = CreatedNames(created[last.h])

\* SHOW TABLES returned u before t, the order of the snapshot, and t holds a
\* row
C18_Witness ==
    /\ last.op = "SHOW TABLES" /\ result = <<"u", "t">>
    /\ show_tables(disk.tables) = <<"u", "t">>
    /\ get_table(db[1], "t").tbl.rows # <<>>

(***************************************************************************)
(* CREATE INDEX on a column that has an index.                             *)
(***************************************************************************)
\* the step is a CREATE INDEX on a column of an existing table that has an
\* index before the step
AlreadyIndexed ==
    /\ last'.op = "CREATE INDEX"
    /\ last'.table \in TableNamesOf(db[last'.h])
    /\ last'.columns[1] \in DOMAIN TableBefore(last'.table).indexes

\* C19: CREATE INDEX on a column that already has an index succeeds and
\* leaves the indexed columns, every index, the rows and next_id as they
\* were.
C19_CreateIndexTwiceIsNoOp ==
    [][AlreadyIndexed =>
          /\ last'.err = ""
          /\ DOMAIN TableAfter(last'.table).indexes
                 = DOMAIN TableBefore(last'.table).indexes
          /\ TableAfter(last'.table).indexes = TableBefore(last'.table).indexes
          /\ TableAfter(last'.table).rows = TableBefore(last'.table).rows
          /\ TableAfter(last'.table).next_id = TableBefore(last'.table).next_id
          /\ db' = db]_vars

\* CREATE INDEX on the primary-key column, indexed since CREATE TABLE, of a
\* table that also has the index of an earlier CREATE INDEX on s, holds rows
\* and whose indexes a failing update has left different from its rows
C19_Witness ==
    /\ last.op = "CREATE INDEX" /\ last.err = "" /\ last.columns = <<"id">>
    /\ "s" \in DOMAIN LastTable.indexes
    /\ LastTable.rows # <<>>
    /\ ~IndexesMatchRows(LastTable)

(***************************************************************************)
(* create_table with the name of an existing table.                        *)
(***************************************************************************)
\* the step is a CREATE TABLE whose name is a table of the handle
NameTaken ==
    /\ last'.op = "CREATE TABLE"
    /\ last'.table \in TableNamesOf(db[last'.h])

\* C20: create_table with an existing name fails with DuplicateTable and
\* leaves the existing table, the table map and the snapshot file as they
\* were.
C20_DuplicateTableRejected ==
    [][NameTaken =>
          /\ last'.err = "DuplicateTable"
          /\ TableAfter(last'.table) = TableBefore(last'.table)
          /\ db' = db
          /\ disk' = disk]_vars

\* a CREATE TABLE with another schema was rejected for the name of a table
\* that holds a row and is in the snapshot
C20_Witness ==
    /\ last.op = "CREATE TABLE" /\ last.err = "DuplicateTable"
    /\ last.col_defs # DeclaredOf(created[last.h], last.table)
    /\ LastTable.rows # <<>>
    /\ disk.exists /\ last.table \in TableNamesOf(disk.tables)

(***************************************************************************)
(* Statements that name a table the database does not hold: two tables    *)
(* that are created and dropped, every statement on t, and joins of both.  *)
(***************************************************************************)
AbsentColumnLists == {<<"id", "v">>, <<"id">>}
AbsentValueLists == {<<StrV("1"), StrV("1")>>, <<StrV("2")>>}

\* no clause, and a clause without an operator
AbsentWheres == {<<>>, <<"id", " ", "1">>}

NextAbsent ==
    \/ CreateTable(1, TableNames, {GoodDef})
    \/ DropTable(1, TableNames)
    \/ InsertLists(1, {"t"}, AbsentColumnLists, AbsentValueLists)
    \/ Select(1, {"t"}, {AllColumns}, AbsentWheres)
    \/ Join(1, TableNames, {AllColumns}, {<<"id", "v">>})
    \/ Update(1, {"t"}, {Assign("v", "2"), Assign("w", "1")}, AbsentWheres)
    \/ Delete(1, {"t"}, AbsentWheres)
    \/ CreateIndex(1, {"t"}, {"v"})
    \/ Describe(1, {"t"})
    \/ Open(1)

SpecAbsent == Init /\ [][NextAbsent]_vars

TableStatements ==
    {"DROP TABLE", "INSERT", "SELECT", "JOIN", "UPDATE", "DELETE",
     "CREATE INDEX", "DESCRIBE"}

\* the step is a statement on a table, or a join with a table, that the
\* handle does not hold
NamesAbsentTable ==
    /\ last'.op \in TableStatements
    /\ \/ last'.table \notin TableNamesOf(db[last'.h])
       \/ last'.op = "JOIN" /\ last'.right \notin TableNamesOf(db[last'.h])

\* the step is an INSERT whose column list and value list differ in length
ListsDiffer ==
    last'.op = "INSERT" /\ Len(last'.columns) # Len(last'.set)

\* C21: a statement that names an absent table changes neither the tables in
\* memory nor the snapshot file, and fails with UnknownTable, except an
\* INSERT whose column and value lists differ in length, which fails with
\* SyntaxError before the table is looked up.
C21_AbsentTableRejected ==
    [][NamesAbsentTable =>
          /\ last'.err = IF ListsDiffer THEN "SyntaxError" ELSE "UnknownTable"
          /\ db' = db
          /\ disk' = disk]_vars

\* a JOIN of a table that holds a row with an absent right table failed,
\* with a snapshot on disk
C21_Witness ==
    /\ last.op = "JOIN" /\ last.err = "UnknownTable"
    /\ last.table \in TableNamesOf(db[last.h])
    /\ last.right \notin TableNamesOf(db[last.h])
    /\ get_table(db[last.h], last.table).tbl.rows # <<>>
    /\ disk.exists

\* C21 as stated: every statement that names an absent table fails with
\* UnknownTable and changes nothing.
C21_AlwaysUnknownTable ==
    [][NamesAbsentTable =>
          /\ last'.err = "UnknownTable"
          /\ db' = db
          /\ disk' = disk]_vars

(***************************************************************************)
(* Two handles on one snapshot file: each is constructed from the file and *)
(* runs mutating statements, in any order of the statements.               *)
(***************************************************************************)
SharedInserts == {[id |-> StrV("1")], [id |-> StrV("2")]}

NextShared ==
    \/ \E h \in Handles : CreateTable(h, TableNames, {GoodDef})
    \/ \E h \in Handles : DropTable(h, {"u"})
    \/ \E h \in Handles : Insert(h, {"t"}, SharedInserts)
    \/ \E h \in Handles : Delete(h, {"t"}, {Clause("id", "=", "1")})
    \/ \E h \in Handles : Open(h)

SpecShared == Init /\ [][NextShared]_vars

\* the outcome of the statement on the tables of its handle alone, with no
\* snapshot file
AloneErr(tables, stmt) ==
    CASE stmt.op = "CREATE TABLE" ->
             _parse_create_table(tables, NoFile, stmt.table, stmt.col_defs).err
      [] stmt.op = "DROP TABLE" ->
             _parse_drop_table(tables, NoFile, stmt.table).err
      [] stmt.op = "INSERT" ->
             _parse_insert(tables, NoFile, stmt.table, stmt.values).err
      [] stmt.op = "DELETE" ->
             _parse_delete(tables, NoFile, stmt.table, stmt.where).err

\* C22: with two handles on one file, a mutating statement of a handle has
\* the outcome it has on that handle's tables alone, leaves the other
\* handle's tables as they are, and when it succeeds the file holds exactly
\* the tables of the writing handle, whatever the other handle had saved.
C22_LastWriterWins ==
    [][last'.op \in {"CREATE TABLE", "DROP TABLE", "INSERT", "DELETE"} =>
          /\ last'.err = AloneErr(db[last'.h], last')
          /\ \A o \in Handles \ {last'.h} : db'[o] = db[o]
          /\ last'.err = "" => /\ disk'.exists
                               /\ disk'.tables = db'[last'.h]
          /\ last'.err # "" => disk' = disk]_vars

\* handle 2 created u and wrote a file without t, while handle 1 holds t
\* with a row that it had saved
C22_Witness ==
    /\ last.op = "CREATE TABLE" /\ last.h = 2 /\ last.err = ""
    /\ disk.tables = db[2]
    /\ "t" \notin TableNamesOf(disk.tables)
    /\ "t" \in TableNamesOf(db[1])
    /\ get_table(db[1], "t").tbl.rows # <<>>

(***************************************************************************)
(* UPDATE of a primary-key or unique column: one table with both, rows     *)
(* with and without v, updates of one row and of all rows.                 *)
(***************************************************************************)
\* CREATE TABLE name (id INTEGER PRIMARY KEY, v INTEGER UNIQUE)
KeyAndUniqueDef ==
    << <<"id", "INTEGER", "PRIMARY", "KEY">>, <<"v", "INTEGER", "UNIQUE">> >>

UniqueInserts ==
    { [id |-> StrV("1"), v |-> StrV("1")], [id |-> StrV("2"), v |-> StrV("2")],
      [id |-> StrV("2")] }

UniqueSets ==
    {Assign("id", "1"), Assign("id", "2"), Assign("v", "1"), Assign("v", "2"),
     Assign("w", "1"), Assign("id", "x") \o Assign("w", "1")}

UniqueWheres == {<<>>, Clause("id", "=", "1"), Clause("id", "=", "2")}

NextUnique ==
    \/ CreateTable(1, {"t"}, {KeyAndUniqueDef})
    \/ Insert(1, {"t"}, UniqueInserts)
    \/ UpdateStatement(1, {"t"}, UniqueSets, UniqueWheres)
    \/ Delete(1, {"t"}, {Clause("id", "=", "1")})
    \/ Open(1)

SpecUnique == Init /\ [][NextUnique]_vars

\* the step is an UPDATE of an existing table with one assignment, to a
\* primary-key or unique column, of a literal the column's type accepts, and
\* its WHERE clause accepts exactly one row
AssignsKeyOfOneRow ==
    /\ last'.op = "UPDATE"
    /\ last'.table \in TableNamesOf(db[last'.h])
    /\ Len(last'.set) = 1
    /\ last'.set[1].col \in ColumnNames(TableBefore(last'.table))
    /\ LET col == ColumnOf(TableBefore(last'.table), last'.set[1].col)
       IN /\ col.primary_key \/ col.unique
          /\ validate(col, last'.set[1].val).err = ""
    /\ Cardinality(Matching(TableBefore(last'.table), last'.where)) = 1

\* the row the UPDATE matched, and the value it assigns
MatchedRow ==
    TableBefore(last'.table).rows[
        CHOOSE k \in Matching(TableBefore(last'.table), last'.where) : TRUE]
AssignedValue ==
    validate(ColumnOf(TableBefore(last'.table), last'.set[1].col),
             last'.set[1].val).v

\* the matched row holds the assigned value already; another row holds it
HeldByMatchedRow == Get(MatchedRow.data, last'.set[1].col) = AssignedValue
HeldByOtherRow ==
    \E k \in 1..Len(TableBefore(last'.table).rows) :
        /\ TableBefore(last'.table).rows[k].id # MatchedRow.id
        /\ Get(TableBefore(last'.table).rows[k].data, last'.set[1].col)
               = AssignedValue

\* the UPDATE succeeded for one row and left the table as it was; it failed
\* with DuplicateValue
SameAsBefore ==
    /\ last'.err = "" /\ last'.count = 1
    /\ TableAfter(last'.table) = TableBefore(last'.table)
RejectedAsDuplicate == last'.err = "DuplicateValue"

\* C23: an UPDATE that assigns to its single matched row the value the row
\* holds in a unique or primary-key column succeeds, returns 1 and leaves
\* rows and indexes as before; one that assigns a value another row holds
\* fails with DuplicateValue.
C23_OwnEntryExcluded ==
    [][AssignsKeyOfOneRow =>
          /\ HeldByMatchedRow => SameAsBefore
          /\ HeldByOtherRow => RejectedAsDuplicate]_vars

\* the same, for a table whose indexes match its rows and whose unique
\* columns hold no value twice before the UPDATE
C23_WhenIndexesMatchRows ==
    [][(/\ AssignsKeyOfOneRow
        /\ IndexesMatchRows(TableBefore(last'.table))
        /\ UniqueHeld(TableBefore(last'.table))) =>
          /\ HeldByMatchedRow => SameAsBefore
          /\ HeldByOtherRow => RejectedAsDuplicate]_vars

(***************************************************************************)
(* UPDATE whose SET clause names a column the table does not have.         *)
(***************************************************************************)
\* the step is an UPDATE of an existing table and one of its assignments
\* names a column that is not in the schema
SetsUnknownColumn ==
    /\ last'.op = "UPDATE"
    /\ last'.table \in TableNamesOf(db[last'.h])
    /\ \E j \in 1..Len(last'.set) :
          last'.set[j].col \notin ColumnNames(TableBefore(last'.table))

\* C24: an UPDATE whose SET clause names a column that is not in the schema
\* fails when its WHERE clause accepts a row, with UnknownColumn when that
\* assignment is the first one; when the table is empty or no row is
\* accepted, no assignment is looked at: the statement returns 0 and leaves
\* the tables as they are.
C24_UnknownColumnOnMatchedRow ==
    [][SetsUnknownColumn =>
          IF Matching(TableBefore(last'.table), last'.where) = {}
          THEN last'.err = "" /\ last'.count = 0 /\ db' = db
          ELSE /\ last'.err # ""
               /\ last'.set[1].col \notin ColumnNames(TableBefore(last'.table))
                      => last'.err = "UnknownColumn"]_vars

\* UPDATE t SET w = 1 WHERE id = ... returned 0 on a table that holds a row
\* the WHERE clause does not accept
C24_Witness ==
    /\ last.op = "UPDATE" /\ last.err = "" /\ last.count = 0
    /\ last.set = Assign("w", "1")
    /\ last.where # <<>>
    /\ LastTable.rows # <<>>

\* C24 as stated: the UPDATE fails with UnknownColumn in every table state.
C24_AlwaysUnknownColumn ==
    [][SetsUnknownColumn => last'.err = "UnknownColumn"]_vars

(***************************************************************************)
(* DELETE whose predicate raises on a row of the scan.                     *)
(***************************************************************************)
\* the step is a DELETE whose predicate raised on a row
DeleteRaised == last'.op = "DELETE" /\ last'.err = "TypeError"

\* C25: a DELETE whose predicate raises on some row removes no row: the
\* rows and indexes of the table are as before the statement, and the
\* snapshot is as before.
C25_FailedDeleteRemovesNothing ==
    [][DeleteRaised => db' = db /\ disk' = disk]_vars

\* a DELETE whose predicate raises leaves the snapshot and the other tables
\* as they are, and removes from the table at most rows its predicate
\* accepts, with their index entries
C25_SnapshotKept ==
    [][DeleteRaised =>
          /\ disk' = disk
          /\ \E removed \in SUBSET MatchingIds(TableBefore(last'.table), last'.where) :
                DeletedExactly(TableBefore(last'.table), TableAfter(last'.table),
                               removed)
          /\ \A k \in 1..Len(db[last'.h]) :
                db[last'.h][k].name # last'.table
                    => db'[last'.h][k] = db[last'.h][k]]_vars

(***************************************************************************)
(* INNER JOIN of rows whose ON column is null.                             *)
(***************************************************************************)
\* the pairs of positions of a left and a right row that both hold null in
\* their ON column
NullPairs ==
    {p \in (1..Len(LeftTable.rows)) \X (1..Len(RightTable.rows)) :
        /\ LeftTable.rows[p[1]].data[last.on.left_col] = None
        /\ RightTable.rows[p[2]].data[last.on.right_col] = None}

\* C26: INNER JOIN never pairs a row whose ON column is null: the result
\* holds one row per pair of rows with equal ON values that are not null,
\* and none when every row holds null there.
C26_NullNeverJoined ==
    (last.op = "JOIN" /\ last.err = "")
        => Len(result) = Cardinality(MatchingPairs \ NullPairs)

\* a join pairs the rows whose ON values are equal, null with null included
C26_NullJoinedWithNull ==
    (last.op = "JOIN" /\ last.err = "")
        => /\ Len(result) = Cardinality(MatchingPairs)
           /\ NullPairs \subseteq MatchingPairs

====
